---- MODULE Spec2Model ----
(***************************************************************************)
(* Model of apps/bridge/scripts/generate_avatar.py (the avatar scene       *)
(* composer driven through the host engine's bpy interface) and of         *)
(* apps/bridge/remove_inline_routes.py (the skip-mode line filter).        *)
(*                                                                         *)
(* Floating point values are kept as integers in thousandths (1.0 is       *)
(* 1000, 0.02 is 20); angles in radians are kept in milliradians.          *)
(***************************************************************************)
EXTENDS Integers, Sequences, FiniteSets, TLC

VARIABLES
    pc,            \* position of main() in the current process
    run,           \* number of the current process invocation (1 or 2)
    argv,          \* sys.argv of the current process, as parsed
    params,        \* result of json.loads, a mapping from the present keys
    mat,           \* local mat of main()
    obj,           \* local obj of main(): index into bpy.objects, 0 is None
    bpy,           \* the host engine: objects, active object, materials, scene
    stdout,        \* what the process printed
    status,        \* how the process ended
    trace,         \* scene operations main() has performed, in order
    files,         \* the file system: output path -> persisted content
    rpc,           \* remove_inline_routes: position of the script
    index_ts,      \* remove_inline_routes: the lines of the file src/index.ts
    lines,         \* remove_inline_routes: the lines read from the file
    idx,           \* remove_inline_routes: number of lines the loop has consumed
    skip_mode,     \* remove_inline_routes: the skip flag
    output_lines   \* remove_inline_routes: the lines kept so far

avatarVars == <<pc, run, argv, params, mat, obj, bpy, stdout, status, trace,
                files>>
routeVars == <<rpc, index_ts, lines, idx, skip_mode, output_lines>>
vars == <<pc, run, argv, params, mat, obj, bpy, stdout, status, trace, files,
          rpc, index_ts, lines, idx, skip_mode, output_lines>>

----------------------------------------------------------------------------
(* Bounds of the input domains.                                            *)

MaxSubdivisions == 1
MaxParticleCount == 1
MaxLines == 4

(* Numbers written in generate_avatar.py, in thousandths where they are    *)
(* floats.                                                                 *)
MetallicFactor == 1000
TransmissionFactor == 1000
GlassRoughness == 0
EmissionStrength == 5000
WireframeThickness == 20
KeyEnergy == 500
FillEnergy == 200
RimEnergy == 1000
RimPitchDegrees == 135
CameraPitchDegrees == 60
EmitterSize == 10
ParticleFrame == 1
ParticleLifetime == 100
ParticleRadius == 100
ParticleStrength == 10000
CyclesSamples == 32
Resolution == 1024

----------------------------------------------------------------------------
(* Values.                                                                 *)

None == 0

EmptyMap == [k \in {} |-> 0]

\* m with key k (re)assigned to v: an attribute or dictionary assignment.
Assign(m, k, v) == [x \in (DOMAIN m) \cup {k} |-> IF x = k THEN v ELSE m[x]]

\* math.radians, to the milliradian (pi taken as 3.141593).
radians(x) == (x * 3141593) \div 180000

TopKeys == {"material", "geometry", "transform", "environment"}

MaterialTypes == {"metallic", "glass", "emissive", "default", "plastic"}
GeometryTypes == {"icosahedron", "torus", "cube", "sphere", "pyramid"}
KnownGeometry == {"icosahedron", "torus", "cube", "sphere"}

Colors == {<<1000, 0, 0, 1000>>}
Roughnesses == {0, 500, 1000}
Rotations == {<<0, 0, 0>>, <<90, 180, -45>>}
Scales == {500, 2000}
ParticleColors == {<<0, 1000, 1000>>}

MaterialSpecs == [color : Colors, roughness : Roughnesses, type : MaterialTypes]
GeometrySpecs == [type : GeometryTypes, subdivisions : 0..MaxSubdivisions,
                  wireframe : BOOLEAN]
TransformSpecs == [rotation : Rotations, scale : Scales]
EnvironmentSpecs == [particleCount : {50 * n : n \in 0..MaxParticleCount},
                     particleColor : ParticleColors]

\* The parameter documents: all four top-level fields, or one of them absent.
FullDocuments ==
    {("material" :> m) @@ ("geometry" :> g) @@ ("transform" :> t)
        @@ ("environment" :> e) :
        m \in MaterialSpecs, g \in GeometrySpecs, t \in TransformSpecs,
        e \in EnvironmentSpecs}
Without(d, k) == [x \in (DOMAIN d) \ {k} |-> d[x]]
Documents == FullDocuments \cup {Without(d, k) : d \in FullDocuments, k \in TopKeys}

\* What --params can hold: text that is not JSON, or the encoding of a document.
Payloads == {[kind |-> "malformed", doc |-> EmptyMap]}
              \cup {[kind |-> "json", doc |-> d] : d \in Documents}

\* sys.argv: without "--", with a required option missing, or complete.
Argvs == {[kind |-> "nodash", output |-> "out1", params |-> p] :
              p \in {[kind |-> "malformed", doc |-> EmptyMap]}}
           \cup {[kind |-> "incomplete", output |-> "out1", params |-> p] :
              p \in {[kind |-> "malformed", doc |-> EmptyMap]}}
           \cup {[kind |-> "ok", output |-> "out1", params |-> p] : p \in Payloads}

----------------------------------------------------------------------------
(* The host engine.                                                        *)

\* An object as an add operator leaves it: op and args are the operator and
\* the keyword arguments main() passed; hide marks an object hidden in the
\* view layer (only content that was there before the run can be hidden).
NewObject(op, args) ==
    [op |-> op, args |-> args, modifiers |-> <<>>, materials |-> <<>>,
     rotation_euler |-> <<0, 0, 0>>, scale |-> <<1000, 1000, 1000>>,
     hide_render |-> FALSE, data |-> EmptyMap, hide |-> FALSE, select |-> TRUE]

HostCube == [NewObject("startup_cube", EmptyMap) EXCEPT !.select = FALSE]
HostGhost == [NewObject("hidden_mesh", EmptyMap) EXCEPT !.select = FALSE, !.hide = TRUE]

HostRender == [camera |-> None, engine |-> "BLENDER_EEVEE", samples |-> 64,
               resolution_x |-> 1920, resolution_y |-> 1080,
               film_transparent |-> FALSE]

\* The scenes the host engine can hold when the script starts: empty, the
\* startup cube (active), the cube with a hidden object beside it, and a
\* hidden object that is the active one.
HostScenes ==
    {[objects |-> <<>>, active |-> None, materials |-> <<>>, scene |-> HostRender],
     [objects |-> <<HostCube>>, active |-> 1, materials |-> <<>>, scene |-> HostRender],
     [objects |-> <<HostCube, HostGhost>>, active |-> 1, materials |-> <<>>,
      scene |-> HostRender],
     [objects |-> <<HostGhost>>, active |-> 1, materials |-> <<>>, scene |-> HostRender]}

\* bpy.ops.object.select_all(action='SELECT'): selects the visible objects.
select_all(b) ==
    [b EXCEPT !.objects = [i \in DOMAIN b.objects |->
        IF b.objects[i].hide THEN b.objects[i]
        ELSE [b.objects[i] EXCEPT !.select = TRUE]]]

Selected(o) == o.select /\ ~o.hide

\* Index, after the selected objects are deleted, of the object now at i
\* (None when it is deleted or i is None).
Reindex(objs, i) ==
    IF i = None \/ Selected(objs[i]) THEN None
    ELSE Cardinality({j \in 1..i : ~Selected(objs[j])})

\* bpy.ops.object.delete(): deletes the selected objects.
delete(b) ==
    [b EXCEPT !.objects = SelectSeq(b.objects, LAMBDA o : ~Selected(o)),
              !.active = Reindex(b.objects, b.active),
              !.scene.camera = Reindex(b.objects, b.scene.camera)]

\* An add operator (mesh primitive, light, camera): the new object is
\* appended and becomes the active object.
object_add(b, op, args) ==
    [b EXCEPT !.objects = Append(b.objects, NewObject(op, args)),
              !.active = Len(b.objects) + 1]

\* obj.modifiers.new(name, type), with the properties then set on it.
modifiers_new(b, i, name, type, props) ==
    [b EXCEPT !.objects[i].modifiers =
        Append(@, [name |-> name, type |-> type, props |-> props])]

clean_scene(b) == delete(select_all(b))

----------------------------------------------------------------------------
(* generate_avatar.py: the builders.  Each takes the host state b and      *)
(* returns the host state it leaves, with its return value where it has    *)
(* one.                                                                    *)

\* shader_inputs with the glass branch's roughness override lost: the input
\* roughness is assigned after the branches instead of before them.
shader_inputs_roughness_last(p) ==
    LET color == p.color
        s1 == Assign(EmptyMap, "Base Color", color)
        s2 == IF p.type = "metallic" THEN
                  Assign(s1, "Metallic", MetallicFactor)
              ELSE IF p.type = "glass" THEN
                  Assign(Assign(s1, "Transmission", TransmissionFactor),
                         "Roughness", GlassRoughness)
              ELSE IF p.type = "emissive" THEN
                  Assign(Assign(s1, "Emission", color),
                         "Emission Strength", EmissionStrength)
              ELSE s1
    IN  Assign(s2, "Roughness", p.roughness)

\* shader_inputs with the emissive branch replacing the base color by the
\* emission instead of adding to it.
shader_inputs_emission_replaces(p) ==
    LET color == p.color
        s1 == Assign(EmptyMap, "Base Color", color)
        s2 == Assign(s1, "Roughness", p.roughness)
    IN  IF p.type = "metallic" THEN
            Assign(s2, "Metallic", MetallicFactor)
        ELSE IF p.type = "glass" THEN
            Assign(Assign(s2, "Transmission", TransmissionFactor),
                   "Roughness", GlassRoughness)
        ELSE IF p.type = "emissive" THEN
            Assign(Assign(Assign(s2, "Base Color", <<0, 0, 0, 1000>>),
                          "Emission", color),
                   "Emission Strength", EmissionStrength)
        ELSE s2

\* create_material, lines 26-38: the inputs set on the principled shader.
shader_inputs(p) ==
    LET color == p.color
        s1 == Assign(EmptyMap, "Base Color", color)
        s2 == Assign(s1, "Roughness", p.roughness)
    IN  IF p.type = "metallic" THEN
            Assign(s2, "Metallic", MetallicFactor)
        ELSE IF p.type = "glass" THEN
            Assign(Assign(s2, "Transmission", TransmissionFactor),
                   "Roughness", GlassRoughness)
        ELSE IF p.type = "emissive" THEN
            Assign(Assign(s2, "Emission", color),
                   "Emission Strength", EmissionStrength)
        ELSE s2

\* create_material: a node material whose node 2 (the principled shader)
\* feeds the Surface input of node 1 (the output node).
create_material(b, p) ==
    LET m == [name |-> "AvatarMaterial", use_nodes |-> TRUE,
              nodes |-> <<[type |-> "ShaderNodeOutputMaterial", inputs |-> EmptyMap],
                          [type |-> "ShaderNodeBsdfPrincipled",
                           inputs |-> shader_inputs(p)]>>,
              links |-> {<<2, "BSDF", 1, "Surface">>}]
    IN  [bpy |-> [b EXCEPT !.materials = Append(@, m)], ret |-> m]

\* add_primitive with the cube subdivided like the icosahedron, through the
\* operator's argument, and no modifier.
add_primitive_cube_direct(b, p) ==
    IF p.type = "icosahedron" THEN
        object_add(b, "primitive_ico_sphere_add",
                   "subdivisions" :> p.subdivisions)
    ELSE IF p.type = "torus" THEN
        object_add(b, "primitive_torus_add", EmptyMap)
    ELSE IF p.type = "cube" THEN
        object_add(b, "primitive_cube_add", "subdivisions" :> p.subdivisions)
    ELSE IF p.type = "sphere" THEN
        object_add(b, "primitive_uv_sphere_add", EmptyMap)
    ELSE b

\* create_geometry, lines 46-56: the primitive selected by the type.
add_primitive(b, p) ==
    IF p.type = "icosahedron" THEN
        object_add(b, "primitive_ico_sphere_add",
                   "subdivisions" :> p.subdivisions)
    ELSE IF p.type = "torus" THEN
        object_add(b, "primitive_torus_add", EmptyMap)
    ELSE IF p.type = "cube" THEN
        LET b1 == object_add(b, "primitive_cube_add", EmptyMap)
        IN  modifiers_new(b1, b1.active, "Subsurf", "SUBSURF",
                          "levels" :> p.subdivisions)
    ELSE IF p.type = "sphere" THEN
        object_add(b, "primitive_uv_sphere_add", EmptyMap)
    ELSE b

\* create_geometry reading the active object before the primitive is
\* added instead of after.
create_geometry_stale_active(b, p, material) ==
    LET b1 == add_primitive(b, p)
        o == b.active
        fails == p.wireframe /\ o = None
        b2 == IF p.wireframe /\ o # None
              THEN modifiers_new(b1, o, "Wireframe", "WIREFRAME",
                                 "thickness" :> WireframeThickness)
              ELSE b1
        b3 == IF o # None
              THEN [b2 EXCEPT !.objects[o].materials = Append(@, material)]
              ELSE b2
    IN  IF fails THEN [bpy |-> b1, ret |-> None, raised |-> TRUE]
        ELSE [bpy |-> b3, ret |-> o, raised |-> FALSE]

\* create_geometry: raised is TRUE when line 61 dereferences None.
create_geometry(b, p, material) ==
    LET b1 == add_primitive(b, p)
        o == b1.active
        fails == p.wireframe /\ o = None
        b2 == IF p.wireframe /\ o # None
              THEN modifiers_new(b1, o, "Wireframe", "WIREFRAME",
                                 "thickness" :> WireframeThickness)
              ELSE b1
        b3 == IF o # None
              THEN [b2 EXCEPT !.objects[o].materials = Append(@, material)]
              ELSE b2
    IN  IF fails THEN [bpy |-> b1, ret |-> None, raised |-> TRUE]
        ELSE [bpy |-> b3, ret |-> o, raised |-> FALSE]

\* apply_transform scaling every object of the scene.
apply_transform_all(b, o, t) ==
    [b EXCEPT !.objects = [i \in DOMAIN b.objects |->
        IF i = o
        THEN [b.objects[i] EXCEPT
                 !.rotation_euler = [k \in 1..3 |-> radians(t.rotation[k])],
                 !.scale = <<t.scale, t.scale, t.scale>>]
        ELSE [b.objects[i] EXCEPT !.scale = <<t.scale, t.scale, t.scale>>]]]

\* main, lines 155-159: rotation in radians and uniform scale on obj.
apply_transform(b, o, t) ==
    [b EXCEPT !.objects[o].rotation_euler =
                  [i \in 1..3 |-> radians(t.rotation[i])],
              !.objects[o].scale = <<t.scale, t.scale, t.scale>>]

\* light.data.<k> = v and light.rotation_euler = r on the active object.
set_data(b, k, v) == [b EXCEPT !.objects[b.active].data = Assign(@, k, v)]

setup_lighting(b) ==
    LET key == set_data(object_add(b, "light_add",
                   ("type" :> "AREA") @@ ("location" :> <<5, 5, 5>>)),
                   "energy", KeyEnergy)
        fill == set_data(set_data(object_add(key, "light_add",
                   ("type" :> "POINT") @@ ("location" :> <<-5, -5, 2>>)),
                   "energy", FillEnergy), "color", <<0, 500, 1000>>)
        rim == set_data(object_add(fill, "light_add",
                   ("type" :> "SPOT") @@ ("location" :> <<0, 5, -5>>)),
                   "energy", RimEnergy)
    IN  [rim EXCEPT !.objects[rim.active].rotation_euler =
                        <<radians(RimPitchDegrees), 0, 0>>]

setup_camera(b) ==
    LET b1 == object_add(b, "camera_add", "location" :> <<0, -8, 4>>)
    IN  [b1 EXCEPT !.objects[b1.active].rotation_euler =
                       <<radians(CameraPitchDegrees), 0, 0>>,
                   !.scene.camera = b1.active]

create_particles(b, p) ==
    LET b1 == object_add(b, "primitive_plane_add",
                  ("size" :> EmitterSize) @@ ("location" :> <<0, 0, 0>>))
        emitter == b1.active
        b2 == [b1 EXCEPT !.objects[emitter].hide_render = TRUE]
        b3 == object_add(b2, "primitive_ico_sphere_add", "radius" :> ParticleRadius)
        particle_obj == b3.active
        m == [name |-> "ParticleMat", use_nodes |-> TRUE,
              nodes |-> <<[type |-> "ShaderNodeOutputMaterial", inputs |-> EmptyMap],
                          [type |-> "ShaderNodeEmission",
                           inputs |-> ("Color" :> (p.particleColor \o <<1000>>))
                                      @@ ("Strength" :> ParticleStrength)]>>,
              links |-> {<<2, "Emission", 1, "Surface">>}]
        settings == ("count" :> p.particleCount)
                    @@ ("frame_start" :> ParticleFrame)
                    @@ ("frame_end" :> ParticleFrame)
                    @@ ("lifetime" :> ParticleLifetime)
                    @@ ("physics_type" :> "NO")
                    @@ ("render_type" :> "OBJECT")
                    @@ ("instance_object" :> particle_obj)
        b4 == [b3 EXCEPT !.objects[particle_obj].hide_render = TRUE,
                         !.objects[particle_obj].materials = Append(@, m),
                         !.materials = Append(@, m)]
    IN  modifiers_new(b4, emitter, "Particles", "PARTICLE_SYSTEM", settings)

\* main, lines 166-171.
render_settings(b) ==
    [b EXCEPT !.scene.engine = "CYCLES",
              !.scene.samples = CyclesSamples,
              !.scene.resolution_x = Resolution,
              !.scene.resolution_y = Resolution,
              !.scene.film_transparent = TRUE]

\* bpy.ops.wm.save_as_mainfile: the file at path holds the host state.
save_as_mainfile(fs, path, b) == Assign(fs, path, b)

----------------------------------------------------------------------------
(* generate_avatar.py: main(), one action per statement that calls into    *)
(* the host engine or can end the process.                                 *)

NoArgv == [kind |-> "unset", output |-> "", params |-> [kind |-> "malformed", doc |-> EmptyMap]]

\* The argument vectors the current process can be started with: any for
\* the first process; the second process is given the parameters of the
\* first and another output path.
StartArgvs == IF run = 1 THEN Argvs ELSE {[argv EXCEPT !.output = "out2"]}

\* The process ends: by return, by sys.exit(n) or by an uncaught exception.
Halt(how) ==
    /\ status' = how
    /\ pc' = "done"

\* Lines 130-132: no "--" in sys.argv.
NoArguments ==
    /\ pc = "start"
    /\ \E a \in StartArgvs :
        /\ a.kind = "nodash"
        /\ argv' = a
    /\ stdout' = Append(stdout, "No arguments passed after --")
    /\ Halt("returned")
    /\ UNCHANGED <<run, params, mat, obj, bpy, trace, files>>
    /\ UNCHANGED routeVars

\* Lines 134-140: argparse rejects the arguments (a required one is missing).
ParseArgsError ==
    /\ pc = "start"
    /\ \E a \in StartArgvs :
        /\ a.kind = "incomplete"
        /\ argv' = a
    /\ Halt("exit2")
    /\ UNCHANGED <<run, params, mat, obj, bpy, stdout, trace, files>>
    /\ UNCHANGED routeVars

\* Lines 134-140: --output and --params are parsed.
ParseArgs ==
    /\ pc = "start"
    /\ \E a \in StartArgvs :
        /\ a.kind = "ok"
        /\ argv' = a
    /\ pc' = "load"
    /\ UNCHANGED <<run, params, mat, obj, bpy, stdout, status, trace, files>>
    /\ UNCHANGED routeVars

\* LoadParams with the except branch printing the error and going on.
LoadParams_no_exit ==
    /\ pc = "load"
    /\ IF argv.params.kind = "json"
       THEN /\ params' = argv.params.doc
            /\ UNCHANGED stdout
       ELSE /\ stdout' = Append(stdout, "Invalid JSON params")
            /\ UNCHANGED params
    /\ pc' = "clean"
    /\ UNCHANGED <<run, argv, mat, obj, bpy, status, trace, files>>
    /\ UNCHANGED routeVars

\* Lines 142-146: json.loads of the payload.
LoadParams ==
    /\ pc = "load"
    /\ IF argv.params.kind = "json"
       THEN /\ params' = argv.params.doc
            /\ pc' = "clean"
            /\ UNCHANGED <<stdout, status>>
       ELSE /\ stdout' = Append(stdout, "Invalid JSON params")
            /\ Halt("exit1")
            /\ UNCHANGED params
    /\ UNCHANGED <<run, argv, mat, obj, bpy, trace, files>>
    /\ UNCHANGED routeVars

\* Line 149.
CleanScene ==
    /\ pc = "clean"
    /\ bpy' = clean_scene(bpy)
    /\ trace' = Append(trace, "clean_scene")
    /\ pc' = "material"
    /\ UNCHANGED <<run, argv, params, mat, obj, stdout, status, files>>
    /\ UNCHANGED routeVars

\* Line 152.
CreateMaterial ==
    /\ pc = "material"
    /\ IF "material" \in DOMAIN params
       THEN LET r == create_material(bpy, params["material"])
            IN  /\ bpy' = r.bpy
                /\ mat' = r.ret
                /\ trace' = Append(trace, "create_material")
                /\ pc' = "geometry"
                /\ UNCHANGED status
       ELSE /\ Halt("KeyError")
            /\ UNCHANGED <<bpy, mat, trace>>
    /\ UNCHANGED <<run, argv, params, obj, stdout, files>>
    /\ UNCHANGED routeVars

\* Line 153.
CreateGeometry ==
    /\ pc = "geometry"
    /\ IF "geometry" \in DOMAIN params
       THEN LET r == create_geometry(bpy, params["geometry"], mat)
            IN  /\ bpy' = r.bpy
                /\ trace' = Append(trace, "create_geometry")
                /\ IF r.raised
                   THEN /\ Halt("AttributeError")
                        /\ UNCHANGED obj
                   ELSE /\ obj' = r.ret
                        /\ pc' = "transform"
                        /\ UNCHANGED status
       ELSE /\ Halt("KeyError")
            /\ UNCHANGED <<bpy, obj, trace>>
    /\ UNCHANGED <<run, argv, params, mat, stdout, files>>
    /\ UNCHANGED routeVars

\* Lines 155-159.
ApplyTransform ==
    /\ pc = "transform"
    /\ IF obj # None
       THEN IF "transform" \in DOMAIN params
            THEN /\ bpy' = apply_transform(bpy, obj, params["transform"])
                 /\ trace' = Append(trace, "apply_transform")
                 /\ pc' = "lighting"
                 /\ UNCHANGED status
            ELSE /\ Halt("KeyError")
                 /\ UNCHANGED <<bpy, trace>>
       ELSE /\ pc' = "lighting"
            /\ UNCHANGED <<bpy, trace, status>>
    /\ UNCHANGED <<run, argv, params, mat, obj, stdout, files>>
    /\ UNCHANGED routeVars

\* Line 161.
SetupLighting ==
    /\ pc = "lighting"
    /\ bpy' = setup_lighting(bpy)
    /\ trace' = Append(trace, "setup_lighting")
    /\ pc' = "camera"
    /\ UNCHANGED <<run, argv, params, mat, obj, stdout, status, files>>
    /\ UNCHANGED routeVars

\* Line 162.
SetupCamera ==
    /\ pc = "camera"
    /\ bpy' = setup_camera(bpy)
    /\ trace' = Append(trace, "setup_camera")
    /\ pc' = "particles"
    /\ UNCHANGED <<run, argv, params, mat, obj, stdout, status, files>>
    /\ UNCHANGED routeVars

\* Line 163.
CreateParticles ==
    /\ pc = "particles"
    /\ IF "environment" \in DOMAIN params
       THEN /\ bpy' = create_particles(bpy, params["environment"])
            /\ trace' = Append(trace, "create_particles")
            /\ pc' = "render"
            /\ UNCHANGED status
       ELSE /\ Halt("KeyError")
            /\ UNCHANGED <<bpy, trace>>
    /\ UNCHANGED <<run, argv, params, mat, obj, stdout, files>>
    /\ UNCHANGED routeVars

\* Lines 166-171.
RenderSettings ==
    /\ pc = "render"
    /\ bpy' = render_settings(bpy)
    /\ trace' = Append(trace, "render_settings")
    /\ pc' = "save"
    /\ UNCHANGED <<run, argv, params, mat, obj, stdout, status, files>>
    /\ UNCHANGED routeVars

\* Line 174, after which main() returns.
Save ==
    /\ pc = "save"
    /\ files' = save_as_mainfile(files, argv.output, bpy)
    /\ trace' = Append(trace, "save_as_mainfile")
    /\ Halt("ok")
    /\ UNCHANGED <<run, argv, params, mat, obj, bpy, stdout>>
    /\ UNCHANGED routeVars

\* The script is invoked a second time, in a new host process, with the
\* same parameters and another output path.
NextProcess ==
    /\ pc = "done"
    /\ run = 1
    /\ run' = 2
    /\ pc' = "start"
    /\ bpy' \in HostScenes
    /\ params' = EmptyMap
    /\ mat' = EmptyMap
    /\ obj' = None
    /\ stdout' = <<>>
    /\ status' = "running"
    /\ trace' = <<>>
    /\ UNCHANGED <<argv, files>>
    /\ UNCHANGED routeVars

Init ==
    /\ pc = "start"
    /\ run = 1
    /\ argv = NoArgv
    /\ params = EmptyMap
    /\ mat = EmptyMap
    /\ obj = None
    /\ bpy \in HostScenes
    /\ stdout = <<>>
    /\ status = "running"
    /\ trace = <<>>
    /\ files = EmptyMap
    /\ rpc = "idle"
    /\ index_ts = <<>>
    /\ lines = <<>>
    /\ idx = 0
    /\ skip_mode = FALSE
    /\ output_lines = <<>>

Next ==
    \/ NoArguments
    \/ ParseArgsError
    \/ ParseArgs
    \/ LoadParams
    \/ CleanScene
    \/ CreateMaterial
    \/ CreateGeometry
    \/ ApplyTransform
    \/ SetupLighting
    \/ SetupCamera
    \/ CreateParticles
    \/ RenderSettings
    \/ Save
    \/ NextProcess

Spec == Init /\ [][Next]_vars

----------------------------------------------------------------------------
(* remove_inline_routes.py.  A line is the sequence of its pieces, a piece *)
(* being the text of a marker or other text; a marker is in a line when    *)
(* it is one of the line's pieces.                                         *)

skip_start_markers == <<"// CSP Violation Report Endpoint">>
skip_end_markers == <<"// Helper function to log authentication actions">>

LineTexts ==
    {<<"app.get(...)">>,
     <<"// CSP Violation Report Endpoint">>,
     <<"// Helper function to log authentication actions">>,
     <<"// CSP Violation Report Endpoint", " ",
       "// Helper function to log authentication actions">>,
     <<"  ", "// Helper function to log authentication actions", " (audit)">>}

\* The files of at most n lines.
RECURSIVE FilesUpTo(_)
FilesUpTo(n) ==
    IF n = 0 THEN {<<>>}
    ELSE LET shorter == FilesUpTo(n - 1)
         IN  shorter \cup {Append(f, l) : f \in shorter, l \in LineTexts}

\* marker in line
Contains(line, marker) == \E i \in DOMAIN line : line[i] = marker

\* any(marker in line for marker in markers)
any_marker_in(line, markers) ==
    \E m \in DOMAIN markers : Contains(line, markers[m])

\* Lines 6-20: the file is read and the loop's state initialised.
ReadFile ==
    /\ rpc = "read"
    /\ lines' = index_ts
    /\ output_lines' = <<>>
    /\ skip_mode' = FALSE
    /\ idx' = 0
    /\ rpc' = "loop"
    /\ UNCHANGED index_ts
    /\ UNCHANGED avatarVars

\* FilterLine with the end-marker line skipped like the rest of the block.
FilterLine_drops_end ==
    /\ rpc = "loop"
    /\ idx < Len(lines)
    /\ idx' = idx + 1
    /\ LET line == lines[idx + 1]
       IN  IF any_marker_in(line, skip_start_markers) THEN
               /\ skip_mode' = TRUE
               /\ UNCHANGED output_lines
           ELSE IF skip_mode /\ any_marker_in(line, skip_end_markers) THEN
               /\ skip_mode' = FALSE
               /\ UNCHANGED output_lines
           ELSE IF skip_mode THEN
               UNCHANGED <<skip_mode, output_lines>>
           ELSE
               /\ output_lines' = Append(output_lines, line)
               /\ UNCHANGED skip_mode
    /\ UNCHANGED <<rpc, index_ts, lines>>
    /\ UNCHANGED avatarVars

\* Lines 22-40: one iteration of the loop, on the next line.
FilterLine ==
    /\ rpc = "loop"
    /\ idx < Len(lines)
    /\ idx' = idx + 1
    /\ LET line == lines[idx + 1]
       IN  IF any_marker_in(line, skip_start_markers) THEN
               /\ skip_mode' = TRUE
               /\ UNCHANGED output_lines
           ELSE IF skip_mode /\ any_marker_in(line, skip_end_markers) THEN
               /\ skip_mode' = FALSE
               /\ output_lines' = Append(output_lines, line)
           ELSE IF skip_mode THEN
               UNCHANGED <<skip_mode, output_lines>>
           ELSE
               /\ output_lines' = Append(output_lines, line)
               /\ UNCHANGED skip_mode
    /\ UNCHANGED <<rpc, index_ts, lines>>
    /\ UNCHANGED avatarVars

\* Lines 43-44: the kept lines are written over the file.
WriteFile ==
    /\ rpc = "loop"
    /\ idx = Len(lines)
    /\ index_ts' = output_lines
    /\ rpc' = "done"
    /\ UNCHANGED <<lines, idx, skip_mode, output_lines>>
    /\ UNCHANGED avatarVars

InitRoutes ==
    /\ pc = "done"
    /\ run = 2
    /\ argv = NoArgv
    /\ params = EmptyMap
    /\ mat = EmptyMap
    /\ obj = None
    /\ bpy = [objects |-> <<>>, active |-> None, materials |-> <<>>,
              scene |-> HostRender]
    /\ stdout = <<>>
    /\ status = "running"
    /\ trace = <<>>
    /\ files = EmptyMap
    /\ rpc = "read"
    /\ index_ts \in FilesUpTo(MaxLines)
    /\ lines = <<>>
    /\ idx = 0
    /\ skip_mode = FALSE
    /\ output_lines = <<>>

NextRoutes ==
    \/ ReadFile
    \/ FilterLine
    \/ WriteFile

SpecRoutes == InitRoutes /\ [][NextRoutes]_vars

----------------------------------------------------------------------------
(* Properties.                                                             *)

KnownMaterial == {"metallic", "glass", "emissive", "default"}

\* The current process was given a well-formed JSON payload.
JsonGiven == argv.kind = "ok" /\ argv.params.kind = "json"

\* ... that is a valid AvatarSpec.
ValidSpecGiven ==
    /\ JsonGiven
    /\ DOMAIN argv.params.doc = TopKeys
    /\ argv.params.doc["material"].type \in KnownMaterial
    /\ argv.params.doc["geometry"].type \in KnownGeometry

\* The scene operations of a complete run, in order.
FullTrace ==
    <<"clean_scene", "create_material", "create_geometry", "apply_transform",
      "setup_lighting", "setup_camera", "create_particles", "render_settings",
      "save_as_mainfile">>

IsPrefix(s, t) == Len(s) <= Len(t) /\ \A i \in DOMAIN s : s[i] = t[i]

Saves == Cardinality({i \in DOMAIN trace : trace[i] = "save_as_mainfile"})

\* C1: for a valid AvatarSpec the run never raises after the JSON parse,
\* its scene operations are clean_scene, material, geometry, transform,
\* lighting, camera, particles, render configuration and persist in that
\* order, and when it ends it has persisted exactly once, as the last scene
\* operation, to the output path.
C1_ValidRunPersistsOnceLast ==
    (ValidSpecGiven /\ pc # "start") =>
        /\ status \in {"running", "ok"}
        /\ IsPrefix(trace, FullTrace)
        /\ Saves <= 1
        /\ pc = "done" =>
            /\ status = "ok"
            /\ trace = FullTrace
            /\ Saves = 1
            /\ argv.output \in DOMAIN files
            /\ files[argv.output] = bpy

C1_Witness ==
    /\ ValidSpecGiven
    /\ argv.params.doc["geometry"].wireframe
    /\ pc = "done"
    /\ status = "ok"
    /\ trace[Len(trace)] = "save_as_mainfile"

\* The object main() holds in obj.
Body == bpy.objects[obj]

\* create_geometry has returned in the current process.
GeometryBuilt ==
    pc \in {"transform", "lighting", "camera", "particles", "render", "save"}
        \/ (pc = "done" /\ status = "ok")

\* The three lights, the camera, the emitter plane with its particle
\* system and the particle prototype are the last six objects of the scene.
RigPresent ==
    LET n == Len(bpy.objects)
    IN  /\ n >= 6
        /\ bpy.objects[n - 5].op = "light_add"
        /\ bpy.objects[n - 4].op = "light_add"
        /\ bpy.objects[n - 3].op = "light_add"
        /\ bpy.objects[n - 2].op = "camera_add"
        /\ bpy.scene.camera = n - 2
        /\ bpy.objects[n - 1].op = "primitive_plane_add"
        /\ Len(bpy.objects[n - 1].modifiers) = 1
        /\ bpy.objects[n - 1].modifiers[1].type = "PARTICLE_SYSTEM"
        /\ bpy.objects[n].op = "primitive_ico_sphere_add"

\* C2: for a geometry.type outside the four known ones and any wireframe
\* value (the rest of the AvatarSpec being present), create_geometry creates
\* no object and returns null, and the run completes: lights, camera and
\* particle environment are built and the scene is persisted.
C2_UnknownGeometryStillCompletes ==
    (JsonGiven /\ DOMAIN argv.params.doc = TopKeys
        /\ argv.params.doc["geometry"].type \notin KnownGeometry
        /\ pc # "start") =>
        /\ status \in {"running", "ok"}
        /\ GeometryBuilt => obj = None
        /\ pc = "done" =>
            /\ status = "ok"
            /\ RigPresent
            /\ argv.output \in DOMAIN files
            /\ files[argv.output] = bpy

\* C3: when one of the four top-level fields is absent from the parsed
\* document, the run ends with a fatal error and never persists.
C3_MissingFieldNeverPersists ==
    (JsonGiven /\ DOMAIN argv.params.doc # TopKeys /\ pc # "start") =>
        /\ Saves = 0
        /\ pc = "done" => status \in {"KeyError", "AttributeError"}

\* C4: with a payload that is not well-formed JSON the run prints the error
\* and exits with status 1, and no step of it performs a scene operation,
\* changes the host state (objects, materials, camera, render
\* configuration) or writes a file.
C4_MalformedJsonFailsFast ==
    /\ [](  (argv.kind = "ok" /\ argv.params.kind = "malformed" /\ pc # "start") =>
              /\ trace = <<>>
              /\ pc \in {"load", "done"}
              /\ pc = "done" =>
                   /\ status = "exit1"
                   /\ stdout = <<"Invalid JSON params">>)
    /\ [][ (argv'.kind = "ok" /\ argv'.params.kind = "malformed" /\ run' = run) =>
              (bpy' = bpy /\ files' = files) ]_vars

C4_Witness ==
    /\ argv.kind = "ok"
    /\ argv.params.kind = "malformed"
    /\ pc = "done"
    /\ status = "exit1"
    /\ Len(bpy.objects) > 0

\* create_material has returned in the current process.
MaterialBuilt == mat # EmptyMap

Shader == mat.nodes[2]

\* C5: for material.type glass the shader ends with roughness 0.0 and
\* transmission 1.0 whatever the input roughness; for every other type the
\* final roughness is the input roughness.
C5_GlassForcesRoughness ==
    MaterialBuilt =>
        LET p == params["material"]
        IN  /\ Shader.type = "ShaderNodeBsdfPrincipled"
            /\ "Roughness" \in DOMAIN Shader.inputs
            /\ p.type = "glass" =>
                 /\ Shader.inputs["Roughness"] = 0
                 /\ "Transmission" \in DOMAIN Shader.inputs
                 /\ Shader.inputs["Transmission"] = 1000
            /\ p.type # "glass" => Shader.inputs["Roughness"] = p.roughness

C5_Witness ==
    /\ MaterialBuilt
    /\ params["material"].type = "glass"
    /\ params["material"].roughness = 1000
    /\ Shader.inputs["Roughness"] = 0

\* C6: for material.type emissive the one principled shader, connected to
\* the output node, has base color and emission color both equal to
\* material.color, emission strength 5.0, and neither metallic nor
\* transmission set.
C6_EmissiveLayered ==
    (MaterialBuilt /\ params["material"].type = "emissive") =>
        /\ Len(mat.nodes) = 2
        /\ mat.nodes[1].type = "ShaderNodeOutputMaterial"
        /\ Shader.type = "ShaderNodeBsdfPrincipled"
        /\ mat.links = {<<2, "BSDF", 1, "Surface">>}
        /\ DOMAIN Shader.inputs =
               {"Base Color", "Roughness", "Emission", "Emission Strength"}
        /\ Shader.inputs["Base Color"] = params["material"].color
        /\ Shader.inputs["Emission"] = params["material"].color
        /\ Shader.inputs["Emission Strength"] = 5000

C6_Witness ==
    /\ MaterialBuilt
    /\ params["material"].type = "emissive"
    /\ pc = "geometry"

HasModifier(o, type) == \E i \in DOMAIN o.modifiers : o.modifiers[i].type = type

\* The object a primitive operator called with args leaves once
\* create_geometry has added the wireframe modifier (when asked for) and
\* attached the material, nothing else being set on it.
PlainBody(op, args, wireframe) ==
    [NewObject(op, args) EXCEPT
        !.modifiers = IF wireframe
                      THEN <<[name |-> "Wireframe", type |-> "WIREFRAME",
                              props |-> "thickness" :> 20]>>
                      ELSE <<>>,
        !.materials = <<mat>>]

\* C7: right after create_geometry, a cube carries a subdivision-surface
\* modifier whose level is geometry.subdivisions; an icosahedron was
\* created with subdivisions = geometry.subdivisions and carries no such
\* modifier; a torus or sphere is the default primitive, the same object
\* for every geometry.subdivisions.
C7_SubdivisionMechanism ==
    (pc = "transform" /\ params["geometry"].type \in KnownGeometry) =>
        LET g == params["geometry"]
        IN  /\ obj # None
            /\ g.type = "cube" =>
                 /\ Body.op = "primitive_cube_add"
                 /\ Body.args = EmptyMap
                 /\ Body.modifiers[1].type = "SUBSURF"
                 /\ Body.modifiers[1].props = ("levels" :> g.subdivisions)
                 /\ Cardinality({i \in DOMAIN Body.modifiers :
                                   Body.modifiers[i].type = "SUBSURF"}) = 1
            /\ g.type = "icosahedron" =>
                 /\ Body.op = "primitive_ico_sphere_add"
                 /\ Body.args = ("subdivisions" :> g.subdivisions)
                 /\ ~HasModifier(Body, "SUBSURF")
            /\ g.type = "torus" =>
                 Body = PlainBody("primitive_torus_add", EmptyMap, g.wireframe)
            /\ g.type = "sphere" =>
                 Body = PlainBody("primitive_uv_sphere_add", EmptyMap, g.wireframe)

C7_Witness ==
    /\ pc = "transform"
    /\ params["geometry"].type = "cube"
    /\ params["geometry"].subdivisions = 1
    /\ params["geometry"].wireframe
    /\ Len(Body.modifiers) = 2

\* C8: the two processes are given the same AvatarSpec and different output
\* paths; whatever the host scene held before each of them, the two
\* persisted files have the same content.
C8_SameSpecSameContent ==
    ({"out1", "out2"} \subseteq DOMAIN files) => files["out1"] = files["out2"]

\* x radians (in milliradians, rounded down) is d degrees.
IsRadiansOf(x, d) == 180000 * x <= d * 3141593 /\ d * 3141593 < 180000 * (x + 1)

\* Rotation and scale of the three lights, the camera, the emitter plane
\* and the particle prototype.
RigPose ==
    <<[rotation_euler |-> <<0, 0, 0>>, scale |-> <<1000, 1000, 1000>>],
      [rotation_euler |-> <<0, 0, 0>>, scale |-> <<1000, 1000, 1000>>],
      [rotation_euler |-> <<2356, 0, 0>>, scale |-> <<1000, 1000, 1000>>],
      [rotation_euler |-> <<1047, 0, 0>>, scale |-> <<1000, 1000, 1000>>],
      [rotation_euler |-> <<0, 0, 0>>, scale |-> <<1000, 1000, 1000>>],
      [rotation_euler |-> <<0, 0, 0>>, scale |-> <<1000, 1000, 1000>>]>>

\* The transform step has been passed in the current process.
TransformPassed ==
    pc \in {"lighting", "camera", "particles", "render", "save"}
        \/ (pc = "done" /\ status = "ok")

\* C9: once the transform step is passed, the body returned by
\* create_geometry (when there is one) has its three scale axes equal to
\* transform.scale and its rotation equal to transform.rotation in radians
\* per axis; in a persisted scene the lights, camera, emitter and particle
\* prototype have the same fixed rotation and scale for every TransformSpec;
\* and the transform step changes nothing of the host state but the
\* rotation and scale of that body, so nothing at all when create_geometry
\* returned null.
C9_TransformOnlyOnBody ==
    /\ []( /\ (TransformPassed /\ obj # None) =>
                LET t == params["transform"]
                IN  /\ Body.scale = <<t.scale, t.scale, t.scale>>
                    /\ \A i \in 1..3 :
                         IsRadiansOf(Body.rotation_euler[i], t.rotation[i])
           /\ (pc = "done" /\ status = "ok") =>
                LET n == Len(bpy.objects)
                IN  /\ RigPresent
                    /\ \A k \in 1..6 :
                         /\ n - 6 + k # obj
                         /\ bpy.objects[n - 6 + k].rotation_euler
                              = RigPose[k].rotation_euler
                         /\ bpy.objects[n - 6 + k].scale = RigPose[k].scale )
    /\ [][ pc = "transform" =>
             /\ DOMAIN bpy'.objects = DOMAIN bpy.objects
             /\ \A i \in DOMAIN bpy.objects :
                  IF i = obj
                  THEN bpy'.objects[i] =
                         [bpy.objects[i] EXCEPT
                            !.rotation_euler = bpy'.objects[i].rotation_euler,
                            !.scale = bpy'.objects[i].scale]
                  ELSE bpy'.objects[i] = bpy.objects[i]
             /\ bpy'.active = bpy.active
             /\ bpy'.materials = bpy.materials
             /\ bpy'.scene = bpy.scene ]_vars

\* A transform that is not the identity has been applied to the body while
\* another object (hidden, left by clean_scene) is in the scene.
C9_Witness ==
    /\ pc = "lighting"
    /\ obj # None
    /\ Len(bpy.objects) = 2
    /\ params["transform"].rotation = <<90, 180, -45>>
    /\ Body.rotation_euler = <<1570, 3141, -786>>
    /\ params["transform"].scale = 2000
    /\ Body.scale = <<2000, 2000, 2000>>

\* The transform step was passed with no body.
C9_WitnessNull ==
    /\ pc = "lighting"
    /\ obj = None

\* Line k of f contains the start marker.
IsStart(f, k) == Contains(f[k], "// CSP Violation Report Endpoint")

\* Line k of f contains the end marker and not the start marker.
IsEnd(f, k) ==
    /\ Contains(f[k], "// Helper function to log authentication actions")
    /\ ~IsStart(f, k)

\* Line k of f is dropped: it contains the start marker, or it lies after a
\* start-marker line with no end line after that one up to k itself.
Dropped(f, k) ==
    \/ IsStart(f, k)
    \/ \E j \in 1..(k - 1) :
         /\ IsStart(f, j)
         /\ \A m \in (j + 1)..k : ~IsEnd(f, m)

\* The lines of f that are not dropped, in order.
RECURSIVE KeptUpTo(_, _)
KeptUpTo(f, n) ==
    IF n = 0 THEN <<>>
    ELSE IF Dropped(f, n) THEN KeptUpTo(f, n - 1)
    ELSE Append(KeptUpTo(f, n - 1), f[n])

\* C10: the file written is the input with exactly the dropped lines
\* removed, in the original order; hence no start-marker line is written,
\* every end line is written, and a start marker with no end line after it
\* drops everything to the end of the file.
C10_SkipModeFilter ==
    rpc = "done" =>
        /\ index_ts = KeptUpTo(lines, Len(lines))
        /\ \A i \in DOMAIN index_ts : ~IsStart(index_ts, i)
        /\ Cardinality({i \in DOMAIN index_ts : IsEnd(index_ts, i)})
             = Cardinality({k \in DOMAIN lines : IsEnd(lines, k)})
        /\ \A j \in DOMAIN lines :
             (IsStart(lines, j) /\ \A m \in (j + 1)..Len(lines) : ~IsEnd(lines, m))
                 => Len(index_ts) = Len(KeptUpTo(lines, j - 1))

\* A file where a block is cut out and the end line and what follows kept,
\* then a second start marker drops the rest.
C10_Witness ==
    /\ rpc = "done"
    /\ Len(lines) = 4
    /\ ~IsStart(lines, 1) /\ ~IsEnd(lines, 1)
    /\ IsStart(lines, 2)
    /\ IsEnd(lines, 3)
    /\ IsStart(lines, 4)
    /\ index_ts = <<lines[1], lines[3]>>
====
